---- MODULE Spec2Model ----
(***************************************************************************)
(* Slice router reconciliation of the kubeslice worker operator:           *)
(* ReconcileSliceRouter (get-or-create of the router Deployment and the    *)
(* router Service), getNsmDataplaneMode and cleanupSliceRouter, run by     *)
(* reconcile workers against one cluster.  A worker's pass is a sequence   *)
(* of steps, one per client call (Get, List, Create, Delete); the code     *)
(* between two client calls belongs to the step of the call before it.     *)
(***************************************************************************)
EXTENDS Naturals, FiniteSets, Sequences, TLC

\* ---------------------------------------------------------------- bounds
\* Most labelled vpp dataplane pods the namespace holds.
MaxPods == 1
\* The passes started for one slice name are counted up to this number.
MaxPasses == 3

\* ------------------------------------------------------------- constants
nsmDataplaneVpp == "vpp"
nsmDataplaneKernel == "kernel"
sliceRouterDeploymentNamePrefix == "vl3-slice-router-"
\* controllers.ControlPlaneNamespace; the slices live in it too.
ControlPlaneNamespace == "kubeslice-system"
\* RequeueAfter: 10 * time.Second, in seconds.
RequeueDelay == 10

\* The reconcile workers and the slices they are handed.
Workers == {"w1", "w2"}
SliceNames == {"red", "blue"}
\* The slices the workers of Spec are handed, possibly both the same one at
\* the same time.
ContendedSlices == {"red"}
Slice(n) == [Name |-> n, Namespace |-> ControlPlaneNamespace]

\* slice.Status.SliceConfig: nil, set with an empty subnet, set with a subnet.
NilConfig == [isNil |-> TRUE, SliceSubnet |-> ""]
SliceConfigs ==
    { NilConfig,
      [isNil |-> FALSE, SliceSubnet |-> ""],
      [isNil |-> FALSE, SliceSubnet |-> "10.1.0.0/16"] }

\* Errors a client call can return.
NotFound == "NotFound"
AlreadyExists == "AlreadyExists"
Internal == "InternalError"
OwnerRefError == "OwnerRefError"
\* Faults the API server may inject into a call: none, or an internal error.
AllFaults == {"none", Internal}
NoFaults == {"none"}

VARIABLES
    deployments,      \* the Deployments of the cluster
    services,         \* the Services of the cluster
    networkServices,  \* names of the NetworkService objects (control plane ns)
    vppPods,          \* number of pods labelled app=nsm-vpp-plane (the List of line 87)
    passes,           \* slice name -> passes started for it
    pass              \* worker -> the state of the pass it runs

vars == <<deployments, services, networkServices, vppPods, passes, pass>>
cluster == <<deployments, services, networkServices, vppPods>>

NoObject == [kind |-> "none"]
Key(o) == <<o.kind, o.namespace, o.name>>

Idle ==
    [ pc |-> "idle", op |-> "none", slice |-> "", config |-> NilConfig,
      dataplane |-> "", listed |-> 0, obj |-> NoObject,
      depGet |-> "", svcGet |-> "", nsGet |-> "",
      listErr |-> "", createErr |-> "", deleteErr |-> "",
      nGetDep |-> 0, nGetSvc |-> 0, nGetNs |-> 0, nList |-> 0,
      nCreate |-> 0, nDelete |-> 0, nEvents |-> 0,
      created |-> {}, deleted |-> {},
      requeueAfter |-> 0, err |-> "nil", changed |-> FALSE ]

\* ------------------------------------------------- object construction
labelsForSliceRouterDeployment(name) ==
    [ app |-> "vl3-nse-" \o name,
      impl |-> "vl3-service-" \o name,
      podType |-> "router",
      slice |-> name ]

getContainerSpecForSliceRouter(s, dataplane) ==
    [ Name |-> "vl3-nse",
      DATAPLANE |-> dataplane,
      ENDPOINT_NETWORK_SERVICE |-> "vl3-service-" \o s.Name,
      ExtraEnv |-> IF dataplane = nsmDataplaneKernel
                     THEN {"IP_ADDRESS", "DST_ROUTES", "DNS_NAMESERVERS", "DNS_DOMAINS"}
                     ELSE IF dataplane = nsmDataplaneVpp
                            THEN {"NSE_IPAM_UNIQUE_OCTET"}
                            ELSE {},
      VolumeMounts |-> IF dataplane = nsmDataplaneVpp
                         THEN {"universal-cnf-config-volume"} ELSE {} ]

getContainerSpecForSliceRouterSidecar(dataplane) ==
    [ Name |-> "avesha-vl3-sidecar",
      DATAPLANE |-> dataplane,
      POD_TYPE |-> "SLICEROUTER_POD",
      VolumeMounts |-> {"shared-volume"} ]

getVolumeSpecForSliceRouter(s, dataplane) ==
    IF dataplane = nsmDataplaneVpp
      THEN {"shared-volume", "universal-cnf-config-volume"}
      ELSE {"shared-volume"}

\* Bug variant: the name of the log line (427) instead of the object's name.
SliceRouterName_LogName(name) == "vl3-nse-" \o name

\* The name of the router Deployment and of the router Service of a slice.
SliceRouterName(name) == sliceRouterDeploymentNamePrefix \o name

\* ctrl.SetControllerReference(owner, obj): on success the object carries a
\* controller owner reference to the slice, on failure it is left without.
SetControllerReference(s, ok) == IF ok THEN s.Name ELSE ""

\* Bug variant: the Deployment's name depends on the detected dataplane.
deploymentForSliceRouter_ModeInName(s, dataplane, refOk) ==
    [ kind |-> "Deployment",
      name |-> SliceRouterName(s.Name) \o "-" \o dataplane,
      namespace |-> s.Namespace,
      labels |-> labelsForSliceRouterDeployment(s.Name),
      router |-> getContainerSpecForSliceRouter(s, dataplane),
      sidecar |-> getContainerSpecForSliceRouterSidecar(dataplane),
      volumes |-> getVolumeSpecForSliceRouter(s, dataplane),
      owner |-> SetControllerReference(s, refOk) ]

\* Bug variant: the Deployment is put into another namespace than the one
\* ReconcileSliceRouter looks it up in.
deploymentForSliceRouter_OtherNamespace(s, dataplane, refOk) ==
    [ kind |-> "Deployment",
      name |-> SliceRouterName(s.Name),
      namespace |-> "default",
      labels |-> labelsForSliceRouterDeployment(s.Name),
      router |-> getContainerSpecForSliceRouter(s, dataplane),
      sidecar |-> getContainerSpecForSliceRouterSidecar(dataplane),
      volumes |-> getVolumeSpecForSliceRouter(s, dataplane),
      owner |-> SetControllerReference(s, refOk) ]

\* deploymentForSliceRouter: the error of SetControllerReference is dropped.
deploymentForSliceRouter(s, dataplane, refOk) ==
    [ kind |-> "Deployment",
      name |-> SliceRouterName(s.Name),
      namespace |-> s.Namespace,
      labels |-> labelsForSliceRouterDeployment(s.Name),
      router |-> getContainerSpecForSliceRouter(s, dataplane),
      sidecar |-> getContainerSpecForSliceRouterSidecar(dataplane),
      volumes |-> getVolumeSpecForSliceRouter(s, dataplane),
      owner |-> SetControllerReference(s, refOk) ]

\* The Service deploySliceRouterSvc builds, with its owner reference set.
serviceForSliceRouter(s, refOk) ==
    [ kind |-> "Service",
      name |-> SliceRouterName(s.Name),
      namespace |-> ControlPlaneNamespace,
      selector |-> labelsForSliceRouterDeployment(s.Name),
      port |-> 5000,
      owner |-> SetControllerReference(s, refOk) ]

\* ------------------------------------------------------------ the client
\* r.Get: nil when an object of that kind, namespace and name exists.
GetResult(objs, kind, namespace, name, fault) ==
    IF fault # "none" THEN fault
    ELSE IF \E o \in objs : Key(o) = <<kind, namespace, name>> THEN "nil"
    ELSE NotFound

\* r.Create: the API server refuses a second object of the same key.
CreateResult(objs, o, fault) ==
    IF fault # "none" THEN fault
    ELSE IF \E p \in objs : Key(p) = Key(o) THEN AlreadyExists
    ELSE "nil"

\* Bug variant: one pod is not enough for vpp.
DataplaneMode_OffByOne(n) == IF n > 1 THEN nsmDataplaneVpp ELSE nsmDataplaneKernel

\* getNsmDataplaneMode, after a List that returned n pods.
DataplaneMode(n) == IF n > 0 THEN nsmDataplaneVpp ELSE nsmDataplaneKernel

\* ------------------------------------------------ ReconcileSliceRouter
\* Bug variant: only the nil check, as for the Service.
SubnetMissing_NilOnly(config) == config.isNil

\* Line 415: the Deployment waits for the subnet.
SubnetMissing(config) == config.isNil \/ config.SliceSubnet = ""

\* Bug variant: the Service waits for the subnet as the Deployment does.
SvcConfigMissing_Subnet(config) == config.isNil \/ config.SliceSubnet = ""

\* Line 443: the Service waits for the SliceConfig only.
SvcConfigMissing(config) == config.isNil

\* The three shapes of return of ReconcileSliceRouter.
\* Lines 417-419, 428-430, 444-446, 455-457.
ReturnRequeue == [requeueAfter |-> RequeueDelay, err |-> "nil", changed |-> TRUE]

\* Bug variant: the error is logged and swallowed, the pass asks for a requeue.
ReturnError_Swallowed(e) ==
    [requeueAfter |-> RequeueDelay, err |-> "nil", changed |-> TRUE]

\* Lines 425, 432, 452, 459.
ReturnError(e) == [requeueAfter |-> 0, err |-> e, changed |-> TRUE]

\* Bug variant: the last return reports a change too.
ReturnNothingToDo_Changed == [requeueAfter |-> 0, err |-> "nil", changed |-> TRUE]

\* Line 462.
ReturnNothingToDo == [requeueAfter |-> 0, err |-> "nil", changed |-> FALSE]

Finish(p, ret) ==
    [p EXCEPT !.pc = "done", !.requeueAfter = ret.requeueAfter,
              !.err = ret.err, !.changed = ret.changed]

TypeOK ==
    /\ vppPods \in 0..MaxPods
    /\ passes \in [SliceNames -> 0..MaxPasses]
    /\ networkServices \subseteq {"vl3-service-" \o n : n \in SliceNames}
    /\ \A w \in Workers : pass[w].pc \in
         {"idle", "getDep", "list", "createDep", "getSvc", "createSvc",
          "getNs", "deleteNs", "done"}

Init ==
    /\ deployments = {}
    /\ services = {}
    /\ networkServices = {}
    /\ vppPods = 0
    /\ passes = [n \in SliceNames |-> 0]
    /\ pass = [w \in Workers |-> Idle]

\* The framework hands a slice to a worker: ReconcileSliceRouter begins.
StartReconcile(w, n, config) ==
    /\ pass[w].pc = "idle"
    /\ passes' = [passes EXCEPT ![n] = IF @ < MaxPasses THEN @ + 1 ELSE @]
    /\ pass' = [pass EXCEPT ![w] =
                  [Idle EXCEPT !.pc = "getDep", !.op = "reconcile",
                               !.slice = n, !.config = config]]
    /\ UNCHANGED cluster

\* Lines 411-433: Get of the Deployment and the branch on its result.
GetDeployment(w, faults) ==
    /\ pass[w].pc = "getDep"
    /\ \E fault \in faults :
         LET p == pass[w]
             s == Slice(p.slice)
             r == GetResult(deployments, "Deployment", s.Namespace,
                            SliceRouterName(s.Name), fault)
             q == [p EXCEPT !.depGet = r, !.nGetDep = @ + 1]
         IN  pass' = [pass EXCEPT ![w] =
               IF r = "nil" THEN [q EXCEPT !.pc = "getSvc"]
               ELSE IF r = NotFound
                 THEN IF SubnetMissing(p.config)
                        THEN Finish(q, ReturnRequeue)
                        ELSE [q EXCEPT !.pc = "list"]
               ELSE Finish(q, ReturnError(r))]
    /\ UNCHANGED <<cluster, passes>>

\* Lines 339-350: getNsmDataplaneMode lists the vpp pods, then
\* deploymentForSliceRouter builds the Deployment.
ListPods(w, faults, refOks) ==
    /\ pass[w].pc = "list"
    /\ \E fault \in faults, refOk \in refOks :
         LET p == pass[w]
             s == Slice(p.slice)
             q == [p EXCEPT !.nList = @ + 1,
                            !.listErr = IF fault # "none" THEN fault ELSE "nil"]
             mode == DataplaneMode(vppPods)
         IN  pass' = [pass EXCEPT ![w] =
               IF fault # "none"
                 THEN Finish(q, ReturnError(fault))
                 ELSE [q EXCEPT !.pc = "createDep", !.listed = vppPods,
                                !.dataplane = mode,
                                !.obj = deploymentForSliceRouter(s, mode, refOk)]]
    /\ UNCHANGED <<cluster, passes>>

\* Lines 351-366 and 422-430: Create of the Deployment.
CreateDeployment(w, faults) ==
    /\ pass[w].pc = "createDep"
    /\ \E fault \in faults :
         LET p == pass[w]
             r == CreateResult(deployments, p.obj, fault)
             q == [p EXCEPT !.nCreate = @ + 1, !.created = @ \cup {p.obj},
                            !.createErr = r]
         IN  IF r = "nil"
               THEN /\ deployments' = deployments \cup {p.obj}
                    /\ pass' = [pass EXCEPT ![w] = Finish(q, ReturnRequeue)]
               ELSE /\ deployments' = deployments
                    /\ pass' = [pass EXCEPT ![w] =
                         Finish([q EXCEPT !.nEvents = @ + 1], ReturnError(r))]
    /\ UNCHANGED <<services, networkServices, vppPods, passes>>

\* Lines 435-462 and 369-389: Get of the Service, the branch on its result,
\* and the Service built with its owner reference.
GetService(w, faults, refOks) ==
    /\ pass[w].pc = "getSvc"
    /\ \E fault \in faults, refOk \in refOks :
         LET p == pass[w]
             s == Slice(p.slice)
             r == GetResult(services, "Service", ControlPlaneNamespace,
                            SliceRouterName(s.Name), fault)
             q == [p EXCEPT !.svcGet = r, !.nGetSvc = @ + 1]
         IN  pass' = [pass EXCEPT ![w] =
               IF r = "nil" THEN Finish(q, ReturnNothingToDo)
               ELSE IF r = NotFound
                 THEN IF SvcConfigMissing(p.config)
                        THEN Finish(q, ReturnRequeue)
                      ELSE IF ~refOk
                        THEN Finish(q, ReturnError(OwnerRefError))
                      ELSE [q EXCEPT !.pc = "createSvc",
                                     !.obj = serviceForSliceRouter(s, refOk)]
               ELSE Finish(q, ReturnError(r))]
    /\ UNCHANGED <<cluster, passes>>

\* Lines 391-406 and 449-457: Create of the Service.
CreateService(w, faults) ==
    /\ pass[w].pc = "createSvc"
    /\ \E fault \in faults :
         LET p == pass[w]
             r == CreateResult(services, p.obj, fault)
             q == [p EXCEPT !.nCreate = @ + 1, !.created = @ \cup {p.obj},
                            !.createErr = r]
         IN  IF r = "nil"
               THEN /\ services' = services \cup {p.obj}
                    /\ pass' = [pass EXCEPT ![w] = Finish(q, ReturnRequeue)]
               ELSE /\ services' = services
                    /\ pass' = [pass EXCEPT ![w] =
                         Finish([q EXCEPT !.nEvents = @ + 1], ReturnError(r))]
    /\ UNCHANGED <<deployments, networkServices, vppPods, passes>>

\* The pass has returned; the worker is free for the next one.
Return(w) ==
    /\ pass[w].pc = "done"
    /\ pass' = [pass EXCEPT ![w] = Idle]
    /\ UNCHANGED <<cluster, passes>>

\* ---------------------------------------------------- cleanupSliceRouter
NetworkServiceName(name) == "vl3-service-" \o name

\* Bug variant: NotFound is returned like any other error.
CleanupGetError_NotFoundFails(r) == r

\* Lines 470-476: what cleanupSliceRouter returns for a failed Get.
CleanupGetError(r) == IF r = NotFound THEN "nil" ELSE r

CleanupReturn(e) == [requeueAfter |-> 0, err |-> e, changed |-> FALSE]

StartCleanup(w, n) ==
    /\ pass[w].pc = "idle"
    /\ passes' = [passes EXCEPT ![n] = IF @ < MaxPasses THEN @ + 1 ELSE @]
    /\ pass' = [pass EXCEPT ![w] =
                  [Idle EXCEPT !.pc = "getNs", !.op = "cleanup", !.slice = n]]
    /\ UNCHANGED cluster

\* Lines 468-476: Get of the NetworkService.
GetNetworkService(w, faults) ==
    /\ pass[w].pc = "getNs"
    /\ \E fault \in faults :
         LET p == pass[w]
             r == IF fault # "none" THEN fault
                  ELSE IF NetworkServiceName(p.slice) \in networkServices
                    THEN "nil" ELSE NotFound
             q == [p EXCEPT !.nsGet = r, !.nGetNs = @ + 1]
         IN  pass' = [pass EXCEPT ![w] =
               IF r = "nil" THEN [q EXCEPT !.pc = "deleteNs"]
               ELSE Finish(q, CleanupReturn(CleanupGetError(r)))]
    /\ UNCHANGED <<cluster, passes>>

\* Lines 478-483: Delete of the NetworkService.
DeleteNetworkService(w, faults) ==
    /\ pass[w].pc = "deleteNs"
    /\ \E fault \in faults :
         LET p == pass[w]
             name == NetworkServiceName(p.slice)
             r == IF fault # "none" THEN fault
                  ELSE IF name \in networkServices THEN "nil" ELSE NotFound
             q == [p EXCEPT !.nDelete = @ + 1, !.deleted = @ \cup {name},
                            !.deleteErr = r]
         IN  /\ networkServices' =
                  IF r = "nil" THEN networkServices \ {name} ELSE networkServices
             /\ pass' = [pass EXCEPT ![w] = Finish(q, CleanupReturn(r))]
    /\ UNCHANGED <<deployments, services, vppPods, passes>>

\* ------------------------------------------------------- the environment
\* A vpp dataplane pod (label app=nsm-vpp-plane) starts or stops.
PodStarted ==
    /\ vppPods < MaxPods
    /\ vppPods' = vppPods + 1
    /\ UNCHANGED <<deployments, services, networkServices, passes, pass>>

PodStopped ==
    /\ vppPods > 0
    /\ vppPods' = vppPods - 1
    /\ UNCHANGED <<deployments, services, networkServices, passes, pass>>

\* The router of a slice registers its network service (ENDPOINT_NETWORK_SERVICE).
NetworkServiceRegistered(n) ==
    /\ \E d \in deployments : d.router.ENDPOINT_NETWORK_SERVICE = NetworkServiceName(n)
    /\ NetworkServiceName(n) \notin networkServices
    /\ networkServices' = networkServices \cup {NetworkServiceName(n)}
    /\ UNCHANGED <<deployments, services, vppPods, passes, pass>>

Next ==
    \/ \E w \in Workers, n \in ContendedSlices, c \in SliceConfigs :
         StartReconcile(w, n, c)
    \/ \E w \in Workers : GetDeployment(w, AllFaults)
    \/ \E w \in Workers : ListPods(w, AllFaults, BOOLEAN)
    \/ \E w \in Workers : CreateDeployment(w, AllFaults)
    \/ \E w \in Workers : GetService(w, AllFaults, BOOLEAN)
    \/ \E w \in Workers : CreateService(w, AllFaults)
    \/ \E w \in Workers : Return(w)
    \/ \E w \in Workers, n \in ContendedSlices : StartCleanup(w, n)
    \/ \E w \in Workers : GetNetworkService(w, AllFaults)
    \/ \E w \in Workers : DeleteNetworkService(w, AllFaults)
    \/ PodStarted
    \/ PodStopped
    \/ \E n \in ContendedSlices : NetworkServiceRegistered(n)

Spec == Init /\ [][Next]_vars

\* ------------------------------------------------------------ convergence
\* One worker, handed slices whose subnet is populated; every client call and
\* every SetControllerReference succeeds; nothing deletes an object.
Populated == [isNil |-> FALSE, SliceSubnet |-> "10.1.0.0/16"]
Reconciler == "w1"

\* A step of a pass for slice n.
PassStep(n) ==
    \/ StartReconcile(Reconciler, n, Populated)
    \/ /\ pass[Reconciler].slice = n
       /\ \/ GetDeployment(Reconciler, NoFaults)
          \/ ListPods(Reconciler, NoFaults, {TRUE})
          \/ CreateDeployment(Reconciler, NoFaults)
          \/ GetService(Reconciler, NoFaults, {TRUE})
          \/ CreateService(Reconciler, NoFaults)
          \/ Return(Reconciler)

ConvNext ==
    \/ \E n \in SliceNames : StartReconcile(Reconciler, n, Populated)
    \/ GetDeployment(Reconciler, NoFaults)
    \/ ListPods(Reconciler, NoFaults, {TRUE})
    \/ CreateDeployment(Reconciler, NoFaults)
    \/ GetService(Reconciler, NoFaults, {TRUE})
    \/ CreateService(Reconciler, NoFaults)
    \/ Return(Reconciler)
    \/ PodStarted
    \/ PodStopped

\* The work queue of the framework serves every requeued slice.
ConvSpec ==
    Init /\ [][ConvNext]_vars /\ \A n \in SliceNames : SF_vars(PassStep(n))

\* ================================================================ claims
Done(w) == pass[w].pc = "done"
ReconcileDone(w) == Done(w) /\ pass[w].op = "reconcile"
CleanupDone(w) == Done(w) /\ pass[w].op = "cleanup"
IsError(r) == r \notin {"", "nil", "NotFound"}
RouterDeploymentsOf(n) == {d \in deployments : d.labels.slice = n}
RouterServicesOf(n) == {s \in services : s.selector.slice = n}

\* C1: in every reachable cluster state a slice name has at most one router
\* Deployment and at most one router Service, the Deployment named
\* "vl3-slice-router-" + slice name in the slice's namespace and the Service
\* of that name in the control-plane namespace, whatever the interleaving of
\* the passes.
C1_AtMostOneRouterPerSlice ==
    \A n \in SliceNames :
        /\ Cardinality(RouterDeploymentsOf(n)) <= 1
        /\ Cardinality(RouterServicesOf(n)) <= 1
        /\ \A d \in RouterDeploymentsOf(n) :
              d.name = "vl3-slice-router-" \o n /\ d.namespace = Slice(n).Namespace
        /\ \A s \in RouterServicesOf(n) :
              s.name = "vl3-slice-router-" \o n /\ s.namespace = ControlPlaneNamespace

\* Two passes overlapped between Get and Create: one of them created the
\* Deployment, the other was refused with AlreadyExists.
C1_Witness ==
    \E w \in Workers :
        /\ ReconcileDone(w)
        /\ pass[w].createErr = AlreadyExists
        /\ pass[w].obj.kind = "Deployment"
        /\ Cardinality(RouterDeploymentsOf(pass[w].slice)) = 1

\* C2: a pass that finds both the Deployment and the Service issues no Create,
\* no Delete, no List, records no event and returns an empty result, a nil
\* error and changed = FALSE, and its last step leaves the cluster as it was;
\* every other return reports changed = TRUE.
C2_NoopInv ==
    \A w \in Workers :
        ReconcileDone(w) =>
            IF pass[w].depGet = "nil" /\ pass[w].svcGet = "nil"
              THEN /\ pass[w].nCreate = 0 /\ pass[w].nDelete = 0
                   /\ pass[w].nList = 0 /\ pass[w].nEvents = 0
                   /\ pass[w].created = {} /\ pass[w].deleted = {}
                   /\ pass[w].requeueAfter = 0
                   /\ pass[w].err = "nil"
                   /\ pass[w].changed = FALSE
              ELSE pass[w].changed = TRUE

C2_NoopStep ==
    \A w \in Workers :
        (\/ pass[w].pc = "getDep" /\ pass'[w].pc = "getSvc"
         \/ pass[w].pc = "getSvc" /\ pass'[w].pc = "done" /\ pass'[w].svcGet = "nil")
        => UNCHANGED cluster

\* C2: re-reconciling a fully provisioned slice writes nothing and returns
\* ({}, nil, changed = FALSE); every other return has changed = TRUE.
C2_FullyProvisionedIsNoop == []C2_NoopInv /\ [][C2_NoopStep]_vars

C2_Witness ==
    \E w \in Workers :
        /\ ReconcileDone(w)
        /\ pass[w].depGet = "nil" /\ pass[w].svcGet = "nil"
        /\ RouterDeploymentsOf(pass[w].slice) # {}
        /\ RouterServicesOf(pass[w].slice) # {}

\* C3: a pass that does not find the Deployment while the SliceConfig is nil
\* or its SliceSubnet is empty ends at once: no List, no Create, RequeueAfter
\* 10 seconds and a nil error.
C3_NoSubnetNoDeployment ==
    \A w \in Workers :
        (/\ pass[w].op = "reconcile"
         /\ pass[w].depGet = "NotFound"
         /\ (pass[w].config.isNil \/ pass[w].config.SliceSubnet = ""))
        => /\ Done(w)
           /\ pass[w].nList = 0 /\ pass[w].nCreate = 0 /\ pass[w].created = {}
           /\ pass[w].nGetSvc = 0
           /\ pass[w].requeueAfter = 10
           /\ pass[w].err = "nil"

C3_Witness ==
    \E w \in Workers :
        /\ ReconcileDone(w)
        /\ pass[w].depGet = "NotFound"
        /\ ~pass[w].config.isNil /\ pass[w].config.SliceSubnet = ""

\* C4: a pass that does not find the Deployment while the subnet is set, and
\* whose List and Create succeed, issues exactly one Create, for a Deployment
\* named "vl3-slice-router-" + slice name in the slice's namespace, none for
\* a Service, and returns RequeueAfter 10 seconds and a nil error.
C4_CreatesTheDeployment ==
    \A w \in Workers :
        (/\ ReconcileDone(w)
         /\ pass[w].depGet = "NotFound"
         /\ ~pass[w].config.isNil /\ pass[w].config.SliceSubnet # ""
         /\ pass[w].listErr = "nil" /\ pass[w].createErr = "nil")
        => /\ pass[w].nCreate = 1
           /\ pass[w].nGetSvc = 0
           /\ Cardinality(pass[w].created) = 1
           /\ \A o \in pass[w].created :
                 /\ o.kind = "Deployment"
                 /\ o.name = "vl3-slice-router-" \o pass[w].slice
                 /\ o.namespace = Slice(pass[w].slice).Namespace
                 /\ o \in deployments
           /\ pass[w].requeueAfter = 10
           /\ pass[w].err = "nil"

C4_Witness ==
    \E w \in Workers :
        /\ ReconcileDone(w)
        /\ pass[w].depGet = "NotFound"
        /\ pass[w].createErr = "nil"
        /\ pass[w].obj \in deployments

\* C5: no client call of a pass is repeated and every client error ends the
\* pass: an error of a Get other than NotFound, of the pod List or of a Create
\* (AlreadyExists of a concurrent creator included) is the error the pass
\* returns, with an empty result, and no call follows it.
C5_ErrorsPropagate ==
    \A w \in Workers :
        pass[w].op = "reconcile" =>
            /\ pass[w].nGetDep <= 1 /\ pass[w].nGetSvc <= 1
            /\ pass[w].nList <= 1 /\ pass[w].nCreate <= 1
            /\ pass[w].nDelete = 0
            /\ IsError(pass[w].depGet) =>
                 /\ Done(w) /\ pass[w].err = pass[w].depGet
                 /\ pass[w].requeueAfter = 0
                 /\ pass[w].nGetSvc = 0 /\ pass[w].nList = 0 /\ pass[w].nCreate = 0
            /\ IsError(pass[w].svcGet) =>
                 /\ Done(w) /\ pass[w].err = pass[w].svcGet
                 /\ pass[w].requeueAfter = 0
                 /\ pass[w].nCreate = 0
            /\ IsError(pass[w].listErr) =>
                 /\ Done(w) /\ pass[w].err = pass[w].listErr
                 /\ pass[w].requeueAfter = 0
                 /\ pass[w].nCreate = 0
            /\ IsError(pass[w].createErr) =>
                 /\ Done(w) /\ pass[w].err = pass[w].createErr
                 /\ pass[w].requeueAfter = 0
                 /\ pass[w].nCreate = 1

\* A pass whose Create was refused because a concurrent pass created the
\* object first.
C5_Witness ==
    \E w \in Workers :
        /\ ReconcileDone(w)
        /\ pass[w].createErr = AlreadyExists
        /\ pass[w].err = AlreadyExists
        /\ pass[w].requeueAfter = 0

\* C6: every object a pass issues a Create for carries a controller owner
\* reference to the slice being reconciled.
C6_CreatedObjectsAreOwned ==
    \A w \in Workers :
        \A o \in pass[w].created : o.owner = pass[w].slice

\* C7: cleanupSliceRouter returns nil without a Delete when the Get of
\* "vl3-service-" + slice name answers NotFound, returns any other Get error
\* without a Delete, and otherwise issues one Delete and returns its result;
\* a Delete that succeeded leaves the object absent.
C7_CleanupInv ==
    \A w \in Workers :
        pass[w].op = "cleanup" =>
            /\ pass[w].nGetNs <= 1 /\ pass[w].nDelete <= 1 /\ pass[w].nCreate = 0
            /\ pass[w].nsGet = "NotFound" =>
                 Done(w) /\ pass[w].err = "nil" /\ pass[w].nDelete = 0
            /\ IsError(pass[w].nsGet) =>
                 Done(w) /\ pass[w].err = pass[w].nsGet /\ pass[w].nDelete = 0
            /\ (Done(w) /\ pass[w].nsGet = "nil") =>
                 /\ pass[w].nDelete = 1
                 /\ pass[w].deleted = {"vl3-service-" \o pass[w].slice}
                 /\ pass[w].err = pass[w].deleteErr

C7_CleanupStep ==
    \A w \in Workers :
        /\ (pass[w].pc = "deleteNs" /\ pass'[w].pc = "done" /\ pass'[w].err = "nil")
             => ("vl3-service-" \o pass[w].slice) \notin networkServices'
        /\ (pass[w].pc = "getNs" /\ pass'[w].pc = "done" /\ pass'[w].err = "nil")
             => /\ ("vl3-service-" \o pass[w].slice) \notin networkServices'
                /\ UNCHANGED cluster

\* C7: cleanup treats NotFound as success, issues at most one Delete, returns
\* every other error, and a successful cleanup leaves the object absent.
C7_CleanupIsIdempotent == []C7_CleanupInv /\ [][C7_CleanupStep]_vars

\* One cleanup deleted the object, the next one found nothing and succeeded.
C7_Witness ==
    \E v, w \in Workers :
        /\ CleanupDone(v) /\ pass[v].nDelete = 1 /\ pass[v].err = "nil"
        /\ CleanupDone(w) /\ pass[w].nsGet = "NotFound" /\ pass[w].err = "nil"
        /\ pass[v].slice = pass[w].slice
        /\ ("vl3-service-" \o pass[w].slice) \notin networkServices

\* C8: the mode is "vpp" exactly when the List returned at least one pod and
\* "kernel" when it returned none; a failed List gives no mode and its error;
\* both containers of the Deployment built in the pass carry the mode of the
\* pass in DATAPLANE.
C8_DataplaneMode ==
    \A w \in Workers :
        pass[w].op = "reconcile" =>
            /\ pass[w].listErr = "nil" =>
                 /\ pass[w].dataplane \in {"vpp", "kernel"}
                 /\ pass[w].dataplane = "vpp" <=> pass[w].listed >= 1
                 /\ pass[w].dataplane = "kernel" <=> pass[w].listed = 0
            /\ IsError(pass[w].listErr) =>
                 /\ pass[w].dataplane = "" /\ pass[w].err = pass[w].listErr
                 /\ pass[w].obj = NoObject /\ pass[w].created = {}
            /\ \A o \in pass[w].created \cup {pass[w].obj} :
                 o.kind = "Deployment" =>
                     /\ o.router.DATAPLANE = pass[w].dataplane
                     /\ o.sidecar.DATAPLANE = pass[w].dataplane
                     /\ pass[w].listErr = "nil"

C8_Witness ==
    \E w \in Workers :
        /\ ReconcileDone(w)
        /\ pass[w].listed >= 1
        /\ pass[w].obj \in deployments
        /\ pass[w].obj.router.DATAPLANE = "vpp"
        /\ pass[w].obj.sidecar.DATAPLANE = "vpp"

\* C9 as claimed: with the Deployment found and the Service not, a nil
\* SliceConfig or an empty SliceSubnet makes the pass create nothing and
\* return RequeueAfter 10 seconds.
C9_ServiceWaitsForSubnet ==
    \A w \in Workers :
        (/\ ReconcileDone(w)
         /\ pass[w].depGet = "nil" /\ pass[w].svcGet = "NotFound"
         /\ (pass[w].config.isNil \/ pass[w].config.SliceSubnet = ""))
        => /\ pass[w].nCreate = 0
           /\ pass[w].requeueAfter = 10
           /\ pass[w].err = "nil"

\* C9 as amended: with the Deployment found and the Service not, a nil
\* SliceConfig makes the pass create nothing and return RequeueAfter 10
\* seconds; with any other SliceConfig, an empty SliceSubnet included, the
\* pass (SetControllerReference and Create succeeding) creates the Service
\* named "vl3-slice-router-" + slice name and returns RequeueAfter 10 seconds.
C9_ServiceWaitsForConfigOnly ==
    \A w \in Workers :
        (/\ ReconcileDone(w)
         /\ pass[w].depGet = "nil" /\ pass[w].svcGet = "NotFound")
        => /\ pass[w].nList = 0
           /\ pass[w].config.isNil =>
                /\ pass[w].nCreate = 0 /\ pass[w].created = {}
                /\ pass[w].requeueAfter = 10 /\ pass[w].err = "nil"
           /\ (~pass[w].config.isNil /\ pass[w].err = "nil") =>
                /\ pass[w].nCreate = 1
                /\ Cardinality(pass[w].created) = 1
                /\ \A o \in pass[w].created :
                      /\ o.kind = "Service"
                      /\ o.name = "vl3-slice-router-" \o pass[w].slice
                      /\ o.namespace = ControlPlaneNamespace
                      /\ o \in services
                /\ pass[w].requeueAfter = 10
           /\ (~pass[w].config.isNil /\ pass[w].err # "nil") =>
                /\ pass[w].requeueAfter = 0
                /\ pass[w].err \in {pass[w].createErr, OwnerRefError}

\* The Service was created for a slice whose SliceSubnet is empty.
C9_Witness ==
    \E w \in Workers :
        /\ ReconcileDone(w)
        /\ pass[w].depGet = "nil" /\ pass[w].svcGet = "NotFound"
        /\ ~pass[w].config.isNil /\ pass[w].config.SliceSubnet = ""
        /\ pass[w].obj.kind = "Service" /\ pass[w].obj \in services
        /\ pass[w].requeueAfter = 10

\* C10: with the subnet populated, every call succeeding and nothing deleted,
\* the first pass for a slice creates the Deployment, the second the Service,
\* the third and every later one finds both and returns no requeue with
\* changed = FALSE; no pass issues more than one Create; and every slice
\* reaches that third pass.
Converged(n) ==
    /\ ReconcileDone(Reconciler) /\ pass[Reconciler].slice = n
    /\ pass[Reconciler].requeueAfter = 0 /\ pass[Reconciler].err = "nil"
    /\ pass[Reconciler].changed = FALSE
    /\ RouterDeploymentsOf(n) # {} /\ RouterServicesOf(n) # {}

C10_ThreePasses ==
    LET p == pass[Reconciler] IN
    ReconcileDone(Reconciler) =>
        /\ p.nCreate <= 1 /\ p.err = "nil"
        /\ passes[p.slice] = 1 =>
             /\ p.nCreate = 1 /\ p.obj.kind = "Deployment" /\ p.obj \in deployments
             /\ RouterServicesOf(p.slice) = {}
             /\ p.requeueAfter = 10 /\ p.changed = TRUE
        /\ passes[p.slice] = 2 =>
             /\ p.nCreate = 1 /\ p.obj.kind = "Service" /\ p.obj \in services
             /\ p.requeueAfter = 10 /\ p.changed = TRUE
        /\ passes[p.slice] >= 3 =>
             /\ p.nCreate = 0 /\ Converged(p.slice)

\* C10: every slice converges, in exactly three passes of at most one Create
\* each, to the pass that changes nothing.
C10_Convergence ==
    []C10_ThreePasses /\ \A n \in SliceNames : <>Converged(n)

C10_Witness ==
    /\ Converged("blue")
    /\ passes["blue"] = 3
    /\ passes["red"] = 1
====
